---- MODULE Spec2Model ----
(***************************************************************************)
(* A model of the wireframe renderer: the rasterizer of display.rs, the    *)
(* mesh loader of mesh.rs and the frame loop of main.rs.                   *)
(*                                                                         *)
(* Integers keep the width of their Rust types.  TLC's integers stop at    *)
(* 2^31 - 1, so an i32 is an Int in I32_MIN..I32_MAX whose arithmetic is   *)
(* done on 16-bit halves, and a u32 is the record [hi, lo] of its two      *)
(* 16-bit halves.  An arithmetic overflow panics in a build with overflow  *)
(* checks (the dev profile) and wraps in a build without them (the release *)
(* profile); overflow_checks says which build runs.                        *)
(***************************************************************************)
EXTENDS Integers, Sequences, FiniteSets, TLC

VARIABLES
    overflow_checks,      \* the build: TRUE = overflow panics, FALSE = overflow wraps
    file,                 \* the contents of ./assets/f22.obj, as lines of tokens
    events,               \* the events SDL holds for the next poll
    pc,                   \* where main() is: new, loop_top, process_input, update, render, done,
                          \* or the call that panicked: new_panicked, update_panicked, render_panicked
    is_running,           \* Renderer.is_running
    camera_position,      \* Renderer.camera_position
    triangles_to_render,  \* Renderer.triangles_to_render
    mesh,                 \* Renderer.mesh
    color_buffer,         \* Renderer.color_buffer, or the buffer a drawing call is given
    presented,            \* the buffer last handed to render_color_buffer
    call,                 \* the last direct call of a display.rs function and its arguments
    before,               \* the buffer as it was before that call
    outcome               \* how that call ended: "ok" or "panic"

vars == <<overflow_checks, file, pc, is_running, camera_position, triangles_to_render,
          mesh, color_buffer, presented, events, call, before, outcome>>

-----------------------------------------------------------------------------
(* Bounds of the model *)

\* in-window endpoints of the lines drawn lie in 0..MaxCoord on both axes
MaxCoord == 3
\* the loop of draw_line is followed for at most this many iterations
MaxLineSteps == 240
\* of the cells of a rectangle beyond the last column / row, this many are visited
RectOverrun == 1
\* the frame loop is followed for this many frames
MaxFrames == 2
\* process_input polls at most this many events in one frame
MaxEvents == 2

-----------------------------------------------------------------------------
(* Machine integers *)

WINDOW_WIDTH == 800
WINDOW_HEIGHT == 600
I32_MAX == 2147483647
I32_MIN == -I32_MAX - 1
HALF == 256 * 256
HALF_SIGN == 128 * 256

Hi(a) == a \div HALF
Lo(a) == a % HALF
\* the i32 with high half h (any integer, reduced to 16 bits, signed) and low half l
I32Of(h, l) == (((h + HALF_SIGN) % HALF) - HALF_SIGN) * HALF + l
HiOverflows(h) == h < -HALF_SIGN \/ h >= HALF_SIGN

\* a + b, a - b, -a, |a| and 2 * a on i32: the wrapped value, and whether it overflowed
I32Add(a, b) ==
    LET l == Lo(a) + Lo(b)
        h == Hi(a) + Hi(b) + (l \div HALF)
    IN  [ovf |-> HiOverflows(h), val |-> I32Of(h, l % HALF)]
I32Sub(a, b) ==
    LET l == Lo(a) - Lo(b)
        h == Hi(a) - Hi(b) + (l \div HALF)
    IN  [ovf |-> HiOverflows(h), val |-> I32Of(h, l % HALF)]
I32Neg(a) == I32Sub(0, a)
I32Abs(a) == IF a < 0 THEN I32Neg(a) ELSE [ovf |-> FALSE, val |-> a]

\* u32 values
U32Of(n) == [hi |-> n \div HALF, lo |-> n % HALF]            \* of a number 0 <= n < 2^31
U32_MAX == [hi |-> HALF - 1, lo |-> HALF - 1]
I32AsU32(a) == [hi |-> Hi(a) % HALF, lo |-> Lo(a)]           \* `a as u32`, a an i32
UsizeAsU32(n) == [hi |-> (n \div HALF) % HALF, lo |-> n % HALF] \* `n as u32`, n a usize
U32Lt(a, b) == a.hi < b.hi \/ (a.hi = b.hi /\ a.lo < b.lo)
U32Ge(a, b) == ~U32Lt(a, b)
U32Add(a, b) ==
    LET l == a.lo + b.lo
        h == a.hi + b.hi + (l \div HALF)
    IN  [ovf |-> h >= HALF, val |-> [hi |-> h % HALF, lo |-> l % HALF]]
\* a / d for a small divisor d (long division on the halves)
U32Div(a, d) ==
    LET qh == a.hi \div d
        r  == a.hi % d
        ql == (r * HALF + a.lo) \div d
    IN  [hi |-> qh, lo |-> ql]
\* the number a u32 below 2^31 stands for
U32Nat(a) == a.hi * HALF + a.lo
U32Succ(a) == U32Add(a, U32Of(1)).val

-----------------------------------------------------------------------------
(* f32 values: a finite value is (-1)^neg * m * 2^e with m < 2^24, written  *)
(* with m >= 2^23 unless e is the least exponent; or an infinity; or NaN.   *)
(* Every operation rounds its exact result to the nearest f32, ties to the  *)
(* even significand.                                                        *)

F32_HIDDEN == 8388608               \* 2^23, the leading bit of a normal significand
F32_RADIX == 2 * F32_HIDDEN         \* 2^24
F32_EMIN == -149                    \* the exponent of the subnormal values
F32_EMAX == 104                     \* the exponent of the largest finite values

Float(neg, m, e) == [cls |-> "fin", neg |-> neg, m |-> m, e |-> e]
Zero(neg) == Float(neg, 0, F32_EMIN)
Inf(neg) == [cls |-> "inf", neg |-> neg, m |-> 0, e |-> 0]
NaN == [cls |-> "nan", neg |-> FALSE, m |-> 0, e |-> 0]

RECURSIVE Pow10(_)
Pow10(e) == IF e = 0 THEN 1 ELSE 10 * Pow10(e - 1)
RECURSIVE Pow2(_)
Pow2(e) == IF e = 0 THEN 1 ELSE 2 * Pow2(e - 1)
RECURSIVE BitLen(_)
BitLen(n) == IF n = 0 THEN 0 ELSE 1 + BitLen(n \div 2)

\* n * 2^e with n brought below 2^26; sticky tells that bits below n were dropped
RECURSIVE Squeeze(_, _, _)
Squeeze(n, e, sticky) ==
    IF n < 4 * F32_RADIX THEN [n |-> n, e |-> e, sticky |-> sticky]
    ELSE Squeeze(n \div 2, e + 1, sticky \/ n % 2 = 1)

\* the f32 (-1)^neg * m * 2^e, or the infinity when it is beyond the largest
\* finite value; m <= 2^24, and 2^24 is written as 2^23 with the next exponent
Finite(neg, m, e) ==
    IF m = F32_RADIX
    THEN IF e + 1 > F32_EMAX THEN Inf(neg) ELSE Float(neg, F32_HIDDEN, e + 1)
    ELSE IF e > F32_EMAX THEN Inf(neg) ELSE Float(neg, m, e)

\* q + rem / (2 * half) rounded to an integer: to the nearest, a tie to the
\* even one; sticky tells that the value is a little above q + rem / (2 * half)
Nearest(q, rem, half, sticky) ==
    IF rem > half \/ (rem = half /\ (sticky \/ q % 2 = 1)) THEN q + 1 ELSE q

\* the f32 nearest to (-1)^neg * (s.n + t) * 2^(s.e) with the exponent E, which
\* is that of the leading bit of s.n or the least exponent
RoundAt(neg, s, E) ==
    IF s.n = 0 THEN Zero(neg)
    ELSE IF E <= s.e THEN Finite(neg, s.n * Pow2(s.e - E), E)
    ELSE IF E - s.e >= 28 THEN Zero(neg)
    ELSE Finite(neg, Nearest(s.n \div Pow2(E - s.e), s.n % Pow2(E - s.e),
                             Pow2(E - s.e - 1), s.sticky), E)

\* the exponent of the f32 values around n * 2^e, n < 2^26
ExponentOf(n, e) ==
    IF e + BitLen(n) - 24 < F32_EMIN THEN F32_EMIN ELSE e + BitLen(n) - 24

\* Round on a value brought below 2^26
RoundSqueezed(neg, s) == RoundAt(neg, s, ExponentOf(s.n, s.e))

\* the f32 nearest to (-1)^neg * (n + t) * 2^e, where 0 < t < 1 if sticky and
\* t = 0 if not: round to nearest, ties to even, overflow to an infinity
Round(neg, n, e, sticky) == RoundSqueezed(neg, Squeeze(n, e, sticky))

\* m * 2^e, m > 0, written with m >= 2^23
RECURSIVE Norm(_, _)
Norm(m, e) == IF m >= F32_HIDDEN THEN [m |-> m, e |-> e] ELSE Norm(2 * m, e - 1)

\* -a
F32Neg(a) == IF a.cls = "nan" THEN a ELSE [a EXCEPT !.neg = ~@]

\* n / 2^d, and whether bits of n were dropped, n < 2^27
ShiftedRight(n, d) ==
    IF d >= 27 THEN [n |-> 0, sticky |-> TRUE]
    ELSE [n |-> n \div Pow2(d), sticky |-> n % Pow2(d) # 0]

\* the difference of two magnitudes on the exponent e, diff = |big| - |small|
\* as far as the bits kept tell: its sign is that of the larger magnitude
Difference(big, small, diff, e, sticky) ==
    IF diff = 0 THEN Zero(FALSE)
    ELSE Round(IF diff < 0 THEN small.neg ELSE big.neg,
               IF diff < 0 THEN -diff ELSE diff, e, sticky)

\* big + small, ns the significand of small moved to the exponent big.e - 3
AddShifted(big, small, ns) ==
    IF big.neg = small.neg THEN Round(big.neg, big.m * 8 + ns.n, big.e - 3, ns.sticky)
    ELSE Difference(big, small, big.m * 8 - ns.n - (IF ns.sticky THEN 1 ELSE 0),
                    big.e - 3, ns.sticky)

\* big + small for finite non-zero values, big.e >= small.e: the sum is formed
\* with three more bits than the significand, the bits of small below them
\* kept as a sticky bit
AddAligned(big, small) ==
    AddShifted(big, small, ShiftedRight(small.m * 8, big.e - small.e))

\* a + b
F32Add(a, b) ==
    CASE a.cls = "nan" \/ b.cls = "nan" -> NaN
      [] a.cls = "inf" /\ b.cls = "inf" -> IF a.neg = b.neg THEN a ELSE NaN
      [] a.cls = "inf" -> a
      [] b.cls = "inf" -> b
      [] a.m = 0 /\ b.m = 0 -> Zero(a.neg /\ b.neg)
      [] a.m = 0 -> b
      [] b.m = 0 -> a
      [] OTHER -> AddAligned(IF a.e >= b.e THEN a ELSE b, IF a.e >= b.e THEN b ELSE a)

\* a - b
F32Sub(a, b) == F32Add(a, F32Neg(b))

\* the 48-bit product hi * 2^24 + lo of two significands, from their 12-bit halves
Product(a1, a0, b1, b0) ==
    [hi |-> a1 * b1 + ((a1 * b0 + a0 * b1) \div 4096)
              + ((((a1 * b0 + a0 * b1) % 4096) * 4096 + a0 * b0) \div F32_RADIX),
     lo |-> (((a1 * b0 + a0 * b1) % 4096) * 4096 + a0 * b0) % F32_RADIX]

\* (-1)^neg * (p.hi * 2^24 + p.lo) * 2^e rounded, p.hi >= 2^22
RoundProduct(neg, p, e) ==
    Round(neg, p.hi * 64 + (p.lo \div 262144), e + 18, p.lo % 262144 # 0)

\* x * y for significands written with m >= 2^23
MulNormal(neg, x, y) ==
    RoundProduct(neg, Product(x.m \div 4096, x.m % 4096, y.m \div 4096, y.m % 4096),
                 x.e + y.e)

\* a * b for finite non-zero values
MulFinite(a, b) == MulNormal(a.neg # b.neg, Norm(a.m, a.e), Norm(b.m, b.e))

\* a * b
F32Mul(a, b) ==
    CASE a.cls = "nan" \/ b.cls = "nan" -> NaN
      [] a.cls = "inf" -> IF b.cls = "fin" /\ b.m = 0 THEN NaN ELSE Inf(a.neg # b.neg)
      [] b.cls = "inf" -> IF a.m = 0 THEN NaN ELSE Inf(a.neg # b.neg)
      [] a.m = 0 \/ b.m = 0 -> Zero(a.neg # b.neg)
      [] OTHER -> MulFinite(a, b)

\* k more bits of the quotient q with remainder r of a division by d
RECURSIVE DivBits(_, _, _, _)
DivBits(q, r, d, k) ==
    IF k = 0 THEN [q |-> q, r |-> r]
    ELSE IF 2 * r >= d THEN DivBits(2 * q + 1, 2 * r - d, d, k - 1)
    ELSE DivBits(2 * q, 2 * r, d, k - 1)

\* (-1)^neg * (s.q + t) * 2^e rounded, t > 0 when the remainder s.r is not 0
RoundQuotient(neg, s, e) == Round(neg, s.q, e, s.r # 0)

\* x / y for significands written with m >= 2^23: 26 bits of their quotient
DivNormal(neg, x, y) ==
    RoundQuotient(neg, DivBits(x.m \div y.m, x.m % y.m, y.m, 25), x.e - y.e - 25)

\* a / b for finite non-zero values
DivFinite(a, b) == DivNormal(a.neg # b.neg, Norm(a.m, a.e), Norm(b.m, b.e))

\* a / b
F32Div(a, b) ==
    CASE a.cls = "nan" \/ b.cls = "nan" -> NaN
      [] a.cls = "inf" -> IF b.cls = "inf" THEN NaN ELSE Inf(a.neg # b.neg)
      [] b.cls = "inf" -> Zero(a.neg # b.neg)
      [] b.m = 0 -> IF a.m = 0 THEN NaN ELSE Inf(a.neg # b.neg)
      [] a.m = 0 -> Zero(a.neg # b.neg)
      [] OTHER -> DivFinite(a, b)

\* `n as f32`, n an i32
I32AsF32(n) ==
    IF n = I32_MIN THEN Float(TRUE, F32_HIDDEN, 8)
    ELSE Round(n < 0, IF n < 0 THEN -n ELSE n, 0, FALSE)

\* the integer part of m * 2^e, e < 8
Truncated(m, e) ==
    IF e >= 0 THEN m * Pow2(e) ELSE IF -e >= 24 THEN 0 ELSE m \div Pow2(-e)

\* `f as i32`: truncation toward zero, saturating at the ends of i32, NaN to 0
F32AsI32(f) ==
    CASE f.cls = "nan" -> 0
      [] f.cls = "inf" -> IF f.neg THEN I32_MIN ELSE I32_MAX
      [] OTHER ->
            IF f.m = 0 THEN 0
            ELSE IF f.e >= 8 THEN (IF f.neg THEN I32_MIN ELSE I32_MAX)
            ELSE IF f.neg THEN -Truncated(f.m, f.e) ELSE Truncated(f.m, f.e)

\* the f32 a decimal literal m / 10^e stands for, |m| < 2^24 and e <= 9: m and
\* 10^e are f32 values, and their quotient rounded once is the nearest f32
Fin(m, e) == F32Div(I32AsF32(m), I32AsF32(Pow10(e)))

Vec3(x, y, z) == [x |-> x, y |-> y, z |-> z]
ZERO == Fin(0, 0)
ONE == Fin(1, 0)
\* the mesh field before Renderer::new has run, or when it panicked
NoMesh ==
    [vertices |-> <<>>, faces |-> <<>>, rotation |-> Vec3(ZERO, ZERO, ZERO),
     scale |-> Vec3(ZERO, ZERO, ZERO), translation |-> Vec3(ZERO, ZERO, ZERO)]

-----------------------------------------------------------------------------
(* The color buffer: its length and its non-zero bytes (an offset that is   *)
(* not in DOMAIN bytes holds 0)                                            *)

BUFFER_LEN == WINDOW_WIDTH * WINDOW_HEIGHT * 3
ZeroBuffer(n) == [len |-> n, bytes |-> [o \in {} |-> 0]]
Byte(buf, o) == IF o \in DOMAIN buf.bytes THEN buf.bytes[o] ELSE 0
\* color_buffer[o] = v, for o < len
SetByte(buf, o, v) ==
    LET dom == IF v = 0 THEN DOMAIN buf.bytes \ {o} ELSE DOMAIN buf.bytes \cup {o}
    IN  [buf EXCEPT !.bytes = [p \in dom |-> IF p = o THEN v ELSE buf.bytes[p]]]

Ok(buf) == [buf |-> buf, st |-> "ok"]
Panic(buf) == [buf |-> buf, st |-> "panic"]
Cut(buf) == [buf |-> buf, st |-> "cut"]

\* clear_color_buffer that leaves the buffer as it is
clear_color_buffer_keeps(buf) == buf

\* clear_color_buffer that zeroes the buffer it is given in place
clear_color_buffer_in_place(buf) == ZeroBuffer(buf.len)

\* clear_color_buffer
clear_color_buffer(buf) == ZeroBuffer(BUFFER_LEN)

\* draw_pixel with the column test off by one
draw_pixel_column_off_by_one(buf, x, y, color) ==
    IF \/ U32Lt(U32Of(WINDOW_WIDTH), x)
       \/ U32Ge(y, U32Div(UsizeAsU32(buf.len), WINDOW_WIDTH * 3))
    THEN Ok(buf)
    ELSE LET pixel_index == (U32Nat(y) * WINDOW_WIDTH + U32Nat(x)) * 3
         IN  IF pixel_index + 2 >= buf.len THEN Panic(buf)
             ELSE Ok(SetByte(SetByte(SetByte(buf, pixel_index, color.r),
                                     pixel_index + 1, color.g), pixel_index + 2, color.b))

\* draw_pixel(color_buffer, x, y, color), x and y u32.  Indexing the slice
\* beyond its length panics.
draw_pixel(buf, x, y, color) ==
    IF \/ U32Ge(x, U32Of(WINDOW_WIDTH))
       \/ U32Ge(y, U32Div(UsizeAsU32(buf.len), WINDOW_WIDTH * 3))
    THEN Ok(buf)
    ELSE LET pixel_index == (U32Nat(y) * WINDOW_WIDTH + U32Nat(x)) * 3
         IN  IF pixel_index + 2 >= buf.len THEN Panic(buf)
             ELSE Ok(SetByte(SetByte(SetByte(buf, pixel_index, color.r),
                                     pixel_index + 1, color.g), pixel_index + 2, color.b))

\* the rows the slice holds, as draw_pixel counts them
BufferRows(buf) == U32Div(UsizeAsU32(buf.len), WINDOW_WIDTH * 3)

\* draw_rect: `for col in x..x + width` of one row.  Once col is RectOverrun
\* columns beyond the window every remaining cell is one draw_pixel rejects
\* by its column test, and the loop is not followed further.
RECURSIVE rect_cols(_, _, _, _, _)
rect_cols(buf, col, xend, row, color) ==
    IF U32Ge(col, xend) \/ U32Ge(col, U32Of(WINDOW_WIDTH + RectOverrun)) THEN Ok(buf)
    ELSE LET r == draw_pixel(buf, col, row, color)
         IN  IF r.st # "ok" THEN r
             ELSE rect_cols(r.buf, U32Succ(col), xend, row, color)


\* draw_rect: `for row in y..y + height`; x + width is evaluated in every row
\* the loop enters.  A row more than RectOverrun beyond the last row the slice
\* holds is one in which draw_pixel rejects every cell, as it does in all rows
\* after it: once x + width has been formed there, the loop is not followed
\* further.  Rows beyond the window that the slice holds are painted.
RECURSIVE rect_rows(_, _, _, _, _, _)
rect_rows(buf, row, yend, x, width, color) ==
    IF U32Ge(row, yend) THEN Ok(buf)
    ELSE LET xe == U32Add(x, width)
         IN  IF overflow_checks /\ xe.ovf THEN Panic(buf)
             ELSE IF U32Ge(row, U32Add(BufferRows(buf), U32Of(RectOverrun)).val)
                  THEN Ok(buf)
             ELSE LET r == rect_cols(buf, x, xe.val, row, color)
                  IN  IF r.st # "ok" THEN r
                      ELSE rect_rows(r.buf, U32Succ(row), yend, x, width, color)


\* draw_rect(color_buffer, x, y, width, height, color), all u32
draw_rect(buf, x, y, width, height, color) ==
    IF U32Ge(x, U32Of(WINDOW_WIDTH)) \/ U32Ge(y, U32Of(WINDOW_HEIGHT)) THEN Ok(buf)
    ELSE LET ye == U32Add(y, height)
         IN  IF overflow_checks /\ ye.ovf THEN Panic(buf)
             ELSE rect_rows(buf, y, ye.val, x, width, color)

NoOvf(a) == [ovf |-> FALSE, val |-> a]

\* an iteration of the loop of draw_line after its draw_pixel, which left p:
\* the test for the endpoint, the steps of x0 and y0; seen is the points
\* visited, this one included
line_advance(s, p, seen, x1, y1, dx, dy, sx, sy) ==
    LET e2 == I32Add(s.err, s.err)
        stepx == e2.val > dy
        errx == IF stepx THEN I32Add(s.err, dy) ELSE NoOvf(s.err)
        nx == IF stepx THEN I32Add(s.x0, sx) ELSE NoOvf(s.x0)
        stepy == e2.val < dx
        erry == IF stepy THEN I32Add(errx.val, dx) ELSE NoOvf(errx.val)
        ny == IF stepy THEN I32Add(s.y0, sy) ELSE NoOvf(s.y0)
    IN  IF p.st # "ok" THEN [s EXCEPT !.buf = p.buf, !.st = p.st, !.pts = seen]
        ELSE IF s.x0 = x1 /\ s.y0 = y1 THEN [s EXCEPT !.buf = p.buf, !.st = "ok", !.pts = seen]
        ELSE IF s.n = 0 THEN [s EXCEPT !.buf = p.buf, !.st = "cut", !.pts = seen]
        ELSE IF overflow_checks /\ (e2.ovf \/ errx.ovf \/ nx.ovf \/ erry.ovf \/ ny.ovf)
             THEN [s EXCEPT !.buf = p.buf, !.st = "panic", !.pts = seen]
        ELSE [buf |-> p.buf, x0 |-> nx.val, y0 |-> ny.val, err |-> erry.val,
              n |-> s.n - 1, pts |-> seen, st |-> "loop"]

\* one iteration of the loop of draw_line from the state s.  s.n is the number
\* of iterations still followed, s.pts the points visited so far
line_iteration(s, x1, y1, dx, dy, sx, sy, color) ==
    line_advance(s, draw_pixel(s.buf, I32AsU32(s.x0), I32AsU32(s.y0), color),
                 Append(s.pts, <<s.x0, s.y0>>), x1, y1, dx, dy, sx, sy)

\* k iterations of the loop from the state s, or fewer when the loop ends
\* (the first half of them, then the rest)
RECURSIVE line_iterations(_, _, _, _, _, _, _, _, _)
line_iterations(s, k, x1, y1, dx, dy, sx, sy, color) ==
    IF s.st # "loop" \/ k = 0 THEN s
    ELSE IF k = 1 THEN line_iteration(s, x1, y1, dx, dy, sx, sy, color)
    ELSE line_iterations(line_iterations(s, k \div 2, x1, y1, dx, dy, sx, sy, color),
                         k - (k \div 2), x1, y1, dx, dy, sx, sy, color)

\* what the loop leaves: the buffer, how it ended and the points visited
line_result(s) == [buf |-> s.buf, st |-> s.st, pts |-> s.pts]

\* the loop of draw_line; n is the number of iterations followed after the first
line_loop(buf, x0, y0, x1, y1, dx, dy, sx, sy, err, color, n, pts) ==
    line_result(line_iterations([buf |-> buf, x0 |-> x0, y0 |-> y0, err |-> err,
                                 n |-> n, pts |-> pts, st |-> "loop"],
                                n + 1, x1, y1, dx, dy, sx, sy, color))

\* line_run that walks from the second endpoint to the first
line_run_endpoints_swapped(buf, x0, y0, x1, y1, color) ==
    LET xd == I32Sub(x0, x1)
        dx == I32Abs(xd.val)
        yd == I32Sub(y0, y1)
        ya == I32Abs(yd.val)
        dy == I32Neg(ya.val)
        sx == IF x1 < x0 THEN 1 ELSE -1
        sy == IF y1 < y0 THEN 1 ELSE -1
        err == I32Add(dx.val, dy.val)
    IN  IF overflow_checks /\ (xd.ovf \/ dx.ovf \/ yd.ovf \/ ya.ovf \/ dy.ovf \/ err.ovf)
        THEN [buf |-> buf, st |-> "panic", pts |-> <<>>]
        ELSE line_loop(buf, x1, y1, x0, y0, dx.val, dy.val, sx, sy, err.val, color,
                       MaxLineSteps, <<>>)

\* draw_line up to its loop: dx, dy, sx, sy, err
line_run(buf, x0, y0, x1, y1, color) ==
    LET xd == I32Sub(x1, x0)
        dx == I32Abs(xd.val)
        yd == I32Sub(y1, y0)
        ya == I32Abs(yd.val)
        dy == I32Neg(ya.val)
        sx == IF x0 < x1 THEN 1 ELSE -1
        sy == IF y0 < y1 THEN 1 ELSE -1
        err == I32Add(dx.val, dy.val)
    IN  IF overflow_checks /\ (xd.ovf \/ dx.ovf \/ yd.ovf \/ ya.ovf \/ dy.ovf \/ err.ovf)
        THEN [buf |-> buf, st |-> "panic", pts |-> <<>>]
        ELSE line_loop(buf, x0, y0, x1, y1, dx.val, dy.val, sx, sy, err.val, color,
                       MaxLineSteps, <<>>)

\* what a call leaves: the buffer and how the call ended
drawn(r) == [buf |-> r.buf, st |-> r.st]

\* draw_line(color_buffer, x0, y0, x1, y1, color), the coordinates i32
draw_line(buf, x0, y0, x1, y1, color) == drawn(line_run(buf, x0, y0, x1, y1, color))

\* triangle_edge without the wrap-around of the last edge to the first point
triangle_edge_no_wrap(buf, points, i, color) ==
    LET p0 == points[i]
        p1 == points[IF i = 3 THEN 3 ELSE i + 1]
    IN  draw_line(buf, F32AsI32(p0.x), F32AsI32(p0.y), F32AsI32(p1.x), F32AsI32(p1.y), color)

\* draw_triangle: the edge from points[i] to points[(i + 1) % 3] (here 1-based)
triangle_edge(buf, points, i, color) ==
    LET p0 == points[i]
        p1 == points[(i % 3) + 1]
    IN  draw_line(buf, F32AsI32(p0.x), F32AsI32(p0.y), F32AsI32(p1.x), F32AsI32(p1.y), color)

\* draw_grid: `for x in (0..WINDOW_WIDTH).step_by(size)` of the row y; the
\* step is taken only while it stays below the end of the range
RECURSIVE grid_cols(_, _, _, _)
grid_cols(buf, x, y, size) ==
    LET r == draw_pixel(buf, U32Of(x), U32Of(y), [r |-> 255, g |-> 255, b |-> 255])
    IN  IF r.st # "ok" THEN r
        ELSE IF size >= WINDOW_WIDTH - x THEN r
        ELSE grid_cols(r.buf, x + size, y, size)

\* draw_grid: `for y in (0..WINDOW_HEIGHT).step_by(size)`
RECURSIVE grid_rows(_, _, _)
grid_rows(buf, y, size) ==
    LET r == grid_cols(buf, 0, y, size)
    IN  IF r.st # "ok" THEN r
        ELSE IF size >= WINDOW_HEIGHT - y THEN r
        ELSE grid_rows(r.buf, y + size, size)

\* draw_grid(color_buffer, size), size a usize; step_by asserts that the step
\* is not zero, in every build
draw_grid(buf, size) ==
    IF size = 0 THEN Panic(buf) ELSE grid_rows(buf, 0, size)

\* the i-th edge of draw_triangle, if the call is still running after the
\* edges that left r
next_edge(r, points, i, color) ==
    IF r.st # "ok" THEN r ELSE triangle_edge(r.buf, points, i, color)

\* draw_triangle(color_buffer, points, color), points three Vec2
draw_triangle(buf, points, color) ==
    next_edge(next_edge(triangle_edge(buf, points, 1, color), points, 2, color),
              points, 3, color)

-----------------------------------------------------------------------------
(* Direct calls of the drawing functions: the buffers and arguments tried *)

Color(r, g, b) == [r |-> r, g |-> g, b |-> b]
WHITE == Color(255, 255, 255)
GREEN == Color(0, 150, 0)
BLACK == Color(0, 0, 0)

PixelOffset(x, y) == (y * WINDOW_WIDTH + x) * 3
\* buf with the pixels of the set px (pairs inside the buffer) set to color
Paint(buf, px, color) ==
    LET offs == {PixelOffset(p[1], p[2]) : p \in px}
        touched == offs \cup {o + 1 : o \in offs} \cup {o + 2 : o \in offs}
        val(o) == IF o \in offs THEN color.r
                  ELSE IF (o - 1) \in offs THEN color.g ELSE color.b
        dom == {o \in DOMAIN buf.bytes \cup touched :
                    IF o \in touched THEN val(o) # 0 ELSE TRUE}
    IN  [buf EXCEPT !.bytes = [o \in dom |-> IF o \in touched THEN val(o) ELSE buf.bytes[o]]]

\* a full-size buffer that holds an earlier drawing
StaleBuffer ==
    Paint(ZeroBuffer(BUFFER_LEN),
          {<<0, 0>>, <<1, 1>>, <<2, 0>>, <<WINDOW_WIDTH - 1, 0>>,
           <<WINDOW_WIDTH - 1, WINDOW_HEIGHT - 1>>}, Color(9, 8, 7))
\* a slice of two rows and seven bytes
ShortBuffer == Paint(ZeroBuffer(2 * WINDOW_WIDTH * 3 + 7), {<<1, 0>>, <<0, 1>>}, Color(9, 8, 7))
\* the buffers drawn into; the last is a slice that holds three rows more
\* than the window has
InitBuffers ==
    {ZeroBuffer(BUFFER_LEN), StaleBuffer, ShortBuffer, ZeroBuffer(0),
     ZeroBuffer(BUFFER_LEN + 3 * WINDOW_WIDTH * 3)}

\* coordinates around the two corners of the window
NearX == (-1..MaxCoord) \cup {WINDOW_WIDTH - MaxCoord + d : d \in -1..MaxCoord}
NearY == (-1..MaxCoord) \cup {WINDOW_HEIGHT - MaxCoord + d : d \in -1..MaxCoord}
PixelXs == {I32AsU32(x) : x \in NearX} \cup {U32_MAX, U32Of(I32_MAX)}
PixelYs == {I32AsU32(y) : y \in NearY} \cup {U32_MAX, U32Of(I32_MAX)}

\* lines: endpoints tried around each of the two corners they start from, and
\* endpoints at the ends of i32
Lines ==
    {<<b[1] + a, b[2] + c, b[1] + d, b[2] + e>> :
        b \in {<<0, 0>>, <<WINDOW_WIDTH - MaxCoord, WINDOW_HEIGHT - MaxCoord>>},
        a \in -1..MaxCoord, c \in -1..MaxCoord, d \in -1..MaxCoord, e \in -1..MaxCoord}
    \cup
    {<<-1, 0, I32_MAX, 0>>, <<0, 0, 0, I32_MIN>>, <<I32_MIN, 1, I32_MAX, 1>>,
     <<0, 0, I32_MAX, 0>>, <<2, I32_MAX, 2, I32_MAX>>, <<I32_MIN, I32_MIN, I32_MIN, I32_MIN>>}

\* rectangles: <<x, width>> and <<y, height>> spans
U32Less(n) == [hi |-> HALF - 1, lo |-> HALF - 1 - n]           \* 2^32 - 1 - n
XSpans ==
    {<<U32Of(0), U32Of(0)>>, <<U32Of(0), U32Of(2)>>, <<U32Of(1), U32Of(MaxCoord)>>,
     <<U32Of(WINDOW_WIDTH - 2), U32Of(1)>>, <<U32Of(WINDOW_WIDTH - 2), U32Of(MaxCoord)>>,
     <<U32Of(WINDOW_WIDTH - 1), U32_MAX>>, <<U32Of(WINDOW_WIDTH - 2), U32Less(WINDOW_WIDTH - 2)>>,
     <<U32Of(WINDOW_WIDTH), U32Of(1)>>, <<U32_MAX, U32Of(1)>>}
YSpans ==
    {<<U32Of(0), U32Of(0)>>, <<U32Of(0), U32Of(2)>>, <<U32Of(1), U32Of(MaxCoord)>>,
     <<U32Of(WINDOW_HEIGHT - 2), U32Of(1)>>, <<U32Of(WINDOW_HEIGHT - 2), U32Of(MaxCoord)>>,
     <<U32Of(WINDOW_HEIGHT - 1), U32_MAX>>, <<U32Of(WINDOW_HEIGHT - 2), U32Less(WINDOW_HEIGHT - 2)>>,
     <<U32Of(WINDOW_HEIGHT), U32Of(1)>>, <<U32_MAX, U32Of(1)>>}

\* grid steps: none, some that put a few points in the window, the window's
\* sides and beyond
GridSizes ==
    {0, WINDOW_HEIGHT \div 2, WINDOW_WIDTH \div 2, WINDOW_HEIGHT - 1, WINDOW_HEIGHT,
     WINDOW_WIDTH - 1, WINDOW_WIDTH, I32_MAX}

\* triangle corners: Vec2 values in and around the window near one of its two
\* corners, and infinities and NaN
Vec2(x, y) == [x |-> x, y |-> y]
OriginPoints ==
    {Vec2(Fin(0, 0), Fin(0, 0)), Vec2(Fin(MaxCoord, 0), Fin(0, 0)),
     Vec2(Fin(15, 1), Fin(MaxCoord * 10 + 9, 1)), Vec2(Fin(-5, 1), Fin(1, 0)),
     Vec2(Fin(-1, 0), Fin(2, 0))}
CornerPoints ==
    {Vec2(Fin(WINDOW_WIDTH - 1, 0), Fin(WINDOW_HEIGHT - 1, 0)),
     Vec2(Fin(WINDOW_WIDTH, 0), Fin(WINDOW_HEIGHT - 2, 0)),
     Vec2(Fin((WINDOW_WIDTH - MaxCoord) * 10 + 5, 1), Fin(WINDOW_HEIGHT - 1, 0))}
FarPoints == {Vec2(Inf(FALSE), Fin(1, 0)), Vec2(NaN, Inf(TRUE))}
\* the sets the three corners of a triangle are taken from
ScreenPoints == {OriginPoints \cup FarPoints, CornerPoints \cup FarPoints}

-----------------------------------------------------------------------------
(* The drawing functions called directly, once, on a buffer *)

NoCall == [op |-> "none", args |-> <<>>]

RendererIdle ==
    /\ file = <<>>
    /\ pc = "direct"
    /\ is_running = FALSE
    /\ camera_position = Vec3(ZERO, ZERO, ZERO)
    /\ triangles_to_render = <<>>
    /\ mesh = NoMesh
    /\ presented = ZeroBuffer(0)
    /\ events = <<>>

InitDraw ==
    /\ overflow_checks \in BOOLEAN
    /\ color_buffer \in InitBuffers
    /\ before = color_buffer
    /\ call = NoCall
    /\ outcome = "ok"
    /\ RendererIdle

\* the call `op` with `args` ends as r: a call whose loop is cut short is not followed
Called(op, args, r) ==
    /\ pc = "direct"
    /\ call.op = "none"
    /\ r.st # "cut"
    /\ call' = [op |-> op, args |-> args]
    /\ before' = color_buffer
    /\ color_buffer' = r.buf
    /\ outcome' = r.st
    /\ UNCHANGED <<overflow_checks, file, pc, is_running, camera_position,
                   triangles_to_render, mesh, presented, events>>

CallClear ==
    Called("clear_color_buffer", <<>>, Ok(clear_color_buffer(color_buffer)))

CallDrawPixel ==
    \E x \in PixelXs, y \in PixelYs, c \in {WHITE, GREEN, BLACK} :
        Called("draw_pixel", <<x, y, c>>, draw_pixel(color_buffer, x, y, c))

CallDrawRect ==
    \E xs \in XSpans, ys \in YSpans, c \in {WHITE, BLACK} :
        Called("draw_rect", <<xs[1], ys[1], xs[2], ys[2], c>>,
               draw_rect(color_buffer, xs[1], ys[1], xs[2], ys[2], c))

CallDrawGrid ==
    \E size \in GridSizes :
        Called("draw_grid", <<size>>, draw_grid(color_buffer, size))

CallDrawLine ==
    \E l \in Lines, c \in {WHITE} :
        Called("draw_line", <<l[1], l[2], l[3], l[4], c>>,
               draw_line(color_buffer, l[1], l[2], l[3], l[4], c))

CallDrawTriangle ==
    \E points \in ScreenPoints, c \in {GREEN} :
      \E p0 \in points, p1 \in points, p2 \in points :
        Called("draw_triangle", <<<<p0, p1, p2>>, c>>,
               draw_triangle(color_buffer, <<p0, p1, p2>>, c))

NextDraw ==
    \/ CallClear
    \/ CallDrawPixel
    \/ CallDrawRect
    \/ CallDrawLine
    \/ CallDrawTriangle
    \/ CallDrawGrid

SpecDraw == InitDraw /\ [][NextDraw]_vars

-----------------------------------------------------------------------------
(* Properties of the drawing functions *)

\* the classic Bresenham algorithm: one pixel per step along the driving axis,
\* the other coordinate stepped when the decision variable D is positive
RECURSIVE BresenhamLow(_, _, _, _, _, _, _, _)
BresenhamLow(x, y, sx, sy, adx, ady, D, left) ==
    {<<x, y>>} \cup
        IF left = 0 THEN {}
        ELSE IF D > 0
             THEN BresenhamLow(x + sx, y + sy, sx, sy, adx, ady, D + 2 * (ady - adx), left - 1)
             ELSE BresenhamLow(x + sx, y, sx, sy, adx, ady, D + 2 * ady, left - 1)
RECURSIVE BresenhamHigh(_, _, _, _, _, _, _, _)
BresenhamHigh(x, y, sx, sy, adx, ady, D, left) ==
    {<<x, y>>} \cup
        IF left = 0 THEN {}
        ELSE IF D > 0
             THEN BresenhamHigh(x + sx, y + sy, sx, sy, adx, ady, D + 2 * (adx - ady), left - 1)
             ELSE BresenhamHigh(x, y + sy, sx, sy, adx, ady, D + 2 * adx, left - 1)
Abs(n) == IF n < 0 THEN -n ELSE n
Bresenham(x0, y0, x1, y1) ==
    LET adx == Abs(x1 - x0)
        ady == Abs(y1 - y0)
        sx == IF x1 >= x0 THEN 1 ELSE -1
        sy == IF y1 >= y0 THEN 1 ELSE -1
    IN  IF ady < adx
        THEN BresenhamLow(x0, y0, sx, sy, adx, ady, 2 * ady - adx, adx)
        ELSE BresenhamHigh(x0, y0, sx, sy, adx, ady, 2 * adx - ady, ady)

InWindow(x, y) == 0 <= x /\ x < WINDOW_WIDTH /\ 0 <= y /\ y < WINDOW_HEIGHT
\* the pixels of buf that are not black
PixelsOf(buf) == {<<(o \div 3) % WINDOW_WIDTH, (o \div 3) \div WINDOW_WIDTH>> : o \in DOMAIN buf.bytes}

\* C1: a draw_line between two points of the window colors exactly the pixels
\* the classic Bresenham algorithm gives for them, in every octant, and leaves
\* every other pixel as it was; from (0,0) to (3,0) these are (0,0), (1,0),
\* (2,0) and (3,0).
DrawLineIsBresenham ==
    (/\ call.op = "draw_line"
     /\ before.len = BUFFER_LEN
     /\ InWindow(call.args[1], call.args[2])
     /\ InWindow(call.args[3], call.args[4]))
    => /\ outcome = "ok"
       /\ color_buffer = Paint(before, Bresenham(call.args[1], call.args[2],
                                                 call.args[3], call.args[4]), call.args[5])
       /\ (call.args = <<0, 0, 3, 0, WHITE>> /\ before = ZeroBuffer(BUFFER_LEN))
            => PixelsOf(color_buffer) = {<<0, 0>>, <<1, 0>>, <<2, 0>>, <<3, 0>>}

\* a line drawn right to left and upwards, whose middle pixel is a tie
DrawLineIsBresenhamWitness ==
    /\ call.op = "draw_line"
    /\ call.args = <<2, 1, 0, 0, WHITE>>
    /\ before = ZeroBuffer(BUFFER_LEN)
    /\ outcome = "ok"
    /\ PixelsOf(color_buffer) = {<<2, 1>>, <<1, 1>>, <<0, 0>>}

IsSmall(u) == u.hi = 0
\* C2: draw_pixel changes nothing when x >= WINDOW_WIDTH or y >= len / (WINDOW_WIDTH * 3);
\* otherwise it writes r, g, b at (y * WINDOW_WIDTH + x) * 3 and the two offsets
\* after it, and leaves every other byte and the length as they were.
DrawPixelEffect ==
    call.op = "draw_pixel" =>
        LET x == call.args[1]
            y == call.args[2]
            color == call.args[3]
            rows == before.len \div (WINDOW_WIDTH * 3)
            outside == \/ ~IsSmall(x) \/ x.lo >= WINDOW_WIDTH
                       \/ ~IsSmall(y) \/ y.lo >= rows
            at == (y.lo * WINDOW_WIDTH + x.lo) * 3
            offsets == DOMAIN before.bytes \cup DOMAIN color_buffer.bytes \cup {at, at + 1, at + 2}
        IN  /\ outcome = "ok"
            /\ outside => color_buffer = before
            /\ ~outside =>
                 /\ color_buffer.len = before.len
                 /\ \A o \in offsets :
                       Byte(color_buffer, o) =
                           CASE o = at -> color.r
                             [] o = at + 1 -> color.g
                             [] o = at + 2 -> color.b
                             [] OTHER -> Byte(before, o)

\* a pixel written into a buffer that holds an earlier drawing
DrawPixelEffectWitness ==
    /\ call.op = "draw_pixel"
    /\ call.args = <<U32Of(1), U32Of(1), GREEN>>
    /\ before = StaleBuffer
    /\ color_buffer # before
    /\ Byte(color_buffer, PixelOffset(1, 1) + 1) = 150

\* the x == WINDOW_WIDTH case of C2, reached
DrawPixelColumnOutside ==
    /\ call.op = "draw_pixel"
    /\ call.args[1] = U32Of(WINDOW_WIDTH)
    /\ call.args[2] = U32Of(0)
    /\ before = StaleBuffer

\* the pixels one draw_line colors on an empty buffer of the length of `before`
LinePixels(p, q, color) ==
    PixelsOf(draw_line(ZeroBuffer(before.len), F32AsI32(p.x), F32AsI32(p.y),
                       F32AsI32(q.x), F32AsI32(q.y), WHITE).buf)

\* C9: draw_triangle changes the buffer as draw_line(P0,P1), draw_line(P1,P2),
\* draw_line(P2,P0) in this order do: the pixels it colors are the union of the
\* pixels of the three edges and no other pixel changes.
DrawTriangleIsThreeLines ==
    call.op = "draw_triangle" =>
        LET P == call.args[1]
            color == call.args[2]
            X(i) == F32AsI32(P[i].x)
            Y(i) == F32AsI32(P[i].y)
            l1 == draw_line(before, X(1), Y(1), X(2), Y(2), color)
            l2 == draw_line(l1.buf, X(2), Y(2), X(3), Y(3), color)
            l3 == draw_line(l2.buf, X(3), Y(3), X(1), Y(1), color)
            last == IF l1.st # "ok" THEN l1 ELSE IF l2.st # "ok" THEN l2 ELSE l3
        IN  /\ color_buffer = last.buf
            /\ outcome = last.st
            /\ outcome = "ok" =>
                 color_buffer = Paint(before, LinePixels(P[1], P[2], color)
                                              \cup LinePixels(P[2], P[3], color)
                                              \cup LinePixels(P[3], P[1], color), color)

\* a triangle with three distinct corners in the window, drawn over an earlier drawing
DrawTriangleIsThreeLinesWitness ==
    /\ call.op = "draw_triangle"
    /\ call.args[1] = <<Vec2(Fin(0, 0), Fin(0, 0)), Vec2(Fin(MaxCoord, 0), Fin(0, 0)),
                        Vec2(Fin(15, 1), Fin(MaxCoord * 10 + 9, 1))>>
    /\ before = StaleBuffer
    /\ outcome = "ok"
    /\ <<1, MaxCoord>> \in PixelsOf(color_buffer)
    /\ <<1, 1>> \in PixelsOf(color_buffer)

\* the pixels in which two buffers differ
ChangedPixels(a, b) ==
    {<<(o \div 3) % WINDOW_WIDTH, (o \div 3) \div WINDOW_WIDTH>> :
        o \in {p \in DOMAIN a.bytes \cup DOMAIN b.bytes : Byte(a, p) # Byte(b, p)}}
Min(a, b) == IF a < b THEN a ELSE b
\* the points of the window between the corners named by a call's arguments
NamedBox(xs, ys) ==
    {p \in ChangedPixels(before, color_buffer) :
        /\ \E a \in xs, b \in xs : a <= p[1] /\ p[1] <= b
        /\ \E a \in ys, b \in ys : a <= p[2] /\ p[2] <= b}

\* C4: no drawing call panics, whatever its arguments, and a call changes no
\* pixel other than those of the window that lie between the points it is given.
DrawsNeverPanic ==
    call.op \in {"draw_pixel", "draw_rect", "draw_line", "draw_triangle"} =>
        /\ outcome = "ok"
        /\ call.op = "draw_line" =>
             ChangedPixels(before, color_buffer)
                 = NamedBox({call.args[1], call.args[3]}, {call.args[2], call.args[4]})
        /\ call.op = "draw_triangle" =>
             ChangedPixels(before, color_buffer)
                 = NamedBox({F32AsI32(call.args[1][i].x) : i \in 1..3},
                            {F32AsI32(call.args[1][i].y) : i \in 1..3})
        /\ (call.op = "draw_pixel" /\ (~IsSmall(call.args[1]) \/ ~IsSmall(call.args[2])))
             => color_buffer = before
        /\ (call.op = "draw_rect" /\ (~IsSmall(call.args[1]) \/ ~IsSmall(call.args[2])))
             => color_buffer = before

\* the part of C4 that does not depend on the build: a call that ends changes
\* only pixels of the window between the points it is given
DrawsStayInBounds ==
    call.op \in {"draw_pixel", "draw_rect", "draw_line", "draw_triangle"} =>
        /\ call.op = "draw_line" =>
             ChangedPixels(before, color_buffer)
                 = NamedBox({call.args[1], call.args[3]}, {call.args[2], call.args[4]})
        /\ call.op = "draw_triangle" =>
             ChangedPixels(before, color_buffer)
                 = NamedBox({F32AsI32(call.args[1][i].x) : i \in 1..3},
                            {F32AsI32(call.args[1][i].y) : i \in 1..3})
        /\ (call.op = "draw_pixel" /\ (~IsSmall(call.args[1]) \/ ~IsSmall(call.args[2])))
             => color_buffer = before
        /\ (call.op = "draw_rect" /\ (~IsSmall(call.args[1]) \/ ~IsSmall(call.args[2])))
             => color_buffer = before
        /\ outcome = "panic" => overflow_checks

\* the pixels (col, row) of the window with x <= col < x + width and
\* y <= row < y + height, the sums taken as numbers
RectPixels(x, y, width, height) ==
    IF ~IsSmall(x) \/ x.lo >= WINDOW_WIDTH \/ ~IsSmall(y) \/ y.lo >= WINDOW_HEIGHT THEN {}
    ELSE LET cols == {c \in x.lo..Min(WINDOW_WIDTH - 1, x.lo + MaxCoord + 2) :
                          U32Lt(U32Of(c - x.lo), width)}
             rows == {r \in y.lo..Min(WINDOW_HEIGHT - 1, y.lo + MaxCoord + 2) :
                          U32Lt(U32Of(r - y.lo), height)}
         IN  cols \X rows

\* C10: draw_rect changes nothing when x >= WINDOW_WIDTH or y >= WINDOW_HEIGHT;
\* otherwise it colors exactly the pixels of the rectangle that lie in the
\* window and leaves every other pixel as it was.
DrawRectClips ==
    (call.op = "draw_rect" /\ before.len = BUFFER_LEN) =>
        /\ outcome = "ok"
        /\ color_buffer = Paint(before, RectPixels(call.args[1], call.args[2],
                                                   call.args[3], call.args[4]), call.args[5])

\* C10 for the calls in which neither x + width nor y + height exceeds u32
DrawRectClipsWithoutOverflow ==
    (/\ call.op = "draw_rect" /\ before.len = BUFFER_LEN
     /\ ~U32Add(call.args[1], call.args[3]).ovf
     /\ ~U32Add(call.args[2], call.args[4]).ovf) =>
        /\ outcome = "ok"
        /\ color_buffer = Paint(before, RectPixels(call.args[1], call.args[2],
                                                   call.args[3], call.args[4]), call.args[5])

-----------------------------------------------------------------------------
(* mesh.rs: the text of a mesh file is a sequence of lines, a line the        *)
(* sequence of its whitespace-separated tokens, a token a sequence of          *)
(* characters                                                                  *)

Digits == {"0", "1", "2", "3", "4", "5", "6", "7", "8", "9"}
DigitValue(c) ==
    CASE c = "0" -> 0 [] c = "1" -> 1 [] c = "2" -> 2 [] c = "3" -> 3 [] c = "4" -> 4
      [] c = "5" -> 5 [] c = "6" -> 6 [] c = "7" -> 7 [] c = "8" -> 8 [] c = "9" -> 9
RECURSIVE DigitsValue(_)
DigitsValue(cs) ==
    IF cs = <<>> THEN 0
    ELSE DigitsValue(SubSeq(cs, 1, Len(cs) - 1)) * 10 + DigitValue(cs[Len(cs)])
AllDigits(cs) == \A i \in 1..Len(cs) : cs[i] \in Digits
\* the index of the first c in cs, 0 when there is none
FirstIndex(cs, c) ==
    IF \E i \in 1..Len(cs) : cs[i] = c
    THEN CHOOSE i \in 1..Len(cs) : cs[i] = c /\ \A j \in 1..(i - 1) : cs[j] # c
    ELSE 0

\* str::parse::<f32> on tokens made of digits, signs, '.', '/' and the letters
\* v, f, x (none of them spells inf, nan or an exponent): an optional sign,
\* digits, an optional '.' and digits, with at least one digit; the value is
\* the f32 nearest to the decimal (tokens of fewer than eight digits)
parse_f32(tok) ==
    LET signed == tok # <<>> /\ tok[1] \in {"+", "-"}
        body == IF signed THEN Tail(tok) ELSE tok
        dot == FirstIndex(body, ".")
        int == IF dot = 0 THEN body ELSE SubSeq(body, 1, dot - 1)
        frac == IF dot = 0 THEN <<>> ELSE SubSeq(body, dot + 1, Len(body))
        ok == AllDigits(int) /\ AllDigits(frac) /\ Len(int) + Len(frac) > 0
    IN  [ok |-> ok,
         val |-> IF ~ok THEN NaN
                 ELSE IF signed /\ tok[1] = "-"
                      THEN F32Neg(Fin(DigitsValue(int \o frac), Len(frac)))
                      ELSE Fin(DigitsValue(int \o frac), Len(frac))]

\* a usize of 64 bits: its four 16-bit parts, the highest first
Usize(n) == <<0, 0, n \div HALF, n % HALF>>
\* the usize is one of the numbers below 2^31
UsizeFits(u) == u[1] = 0 /\ u[2] = 0 /\ u[3] < HALF_SIGN
\* the number a usize below 2^31 is
UsizeNat(u) == u[3] * HALF + u[4]

\* one digit of str::parse::<usize>: result.checked_mul(10) and
\* checked_add(digit); ovf when the product or the sum exceeds usize::MAX
usize_checked_step(u, digit) ==
    LET t4 == u[4] * 10 + digit
        t3 == u[3] * 10 + (t4 \div HALF)
        t2 == u[2] * 10 + (t3 \div HALF)
        t1 == u[1] * 10 + (t2 \div HALF)
    IN  [ovf |-> t1 >= HALF, val |-> <<t1 % HALF, t2 % HALF, t3 % HALF, t4 % HALF>>]

\* the digits of str::parse::<usize> from the left, result the value so far
RECURSIVE parse_usize_digits(_, _)
parse_usize_digits(cs, result) ==
    IF cs = <<>> THEN [ok |-> TRUE, val |-> result]
    ELSE IF Head(cs) \notin Digits THEN [ok |-> FALSE, val |-> Usize(0)]
    ELSE LET t == usize_checked_step(result, DigitValue(Head(cs)))
         IN  IF t.ovf THEN [ok |-> FALSE, val |-> Usize(0)]
             ELSE parse_usize_digits(Tail(cs), t.val)

\* str::parse::<usize>: an optional '+' and at least one digit; a value
\* beyond usize::MAX is an error (PosOverflow)
parse_usize(tok) ==
    LET body == IF tok # <<>> /\ tok[1] = "+" THEN Tail(tok) ELSE tok
    IN  IF body = <<>> THEN [ok |-> FALSE, val |-> Usize(0)]
        ELSE parse_usize_digits(body, Usize(0))

\* word.split('/').next(): the characters before the first '/'
split_slash_first(word) ==
    LET at == FirstIndex(word, "/")
    IN  IF at = 0 THEN word ELSE SubSeq(word, 1, at - 1)

\* Face::new(a, b, c) on numbers; the fields are usize
Face(a, b, c) == [a |-> Usize(a), b |-> Usize(b), c |-> Usize(c)]

N_CUBE_VERTICES == 8
N_CUBE_FACES == 6 * 2

CUBE_VERTICES ==
    <<Vec3(Fin(-1, 0), Fin(-1, 0), Fin(-1, 0)),
      Vec3(Fin(-1, 0), Fin(1, 0), Fin(-1, 0)),
      Vec3(Fin(1, 0), Fin(1, 0), Fin(-1, 0)),
      Vec3(Fin(1, 0), Fin(-1, 0), Fin(-1, 0)),
      Vec3(Fin(1, 0), Fin(1, 0), Fin(1, 0)),
      Vec3(Fin(1, 0), Fin(-1, 0), Fin(1, 0)),
      Vec3(Fin(-1, 0), Fin(1, 0), Fin(1, 0)),
      Vec3(Fin(-1, 0), Fin(-1, 0), Fin(1, 0))>>

\* CUBE_FACES with the last face of the top side turned to the bottom vertex 4
CUBE_FACES_TOP_BENT ==
    <<Face(1, 2, 3), Face(1, 3, 4), Face(4, 3, 5), Face(4, 5, 6),
      Face(6, 5, 7), Face(6, 7, 8), Face(8, 7, 2), Face(8, 2, 1),
      Face(7, 5, 3), Face(7, 3, 4), Face(8, 1, 4), Face(8, 4, 6)>>

CUBE_FACES ==
    <<Face(1, 2, 3), Face(1, 3, 4), Face(4, 3, 5), Face(4, 5, 6),
      Face(6, 5, 7), Face(6, 7, 8), Face(8, 7, 2), Face(8, 2, 1),
      Face(7, 5, 3), Face(7, 3, 2), Face(8, 1, 4), Face(8, 4, 6)>>

\* Mesh::new_cube: the two loops push CUBE_VERTICES[i] and CUBE_FACES[i]
new_cube ==
    [vertices |-> [i \in 1..N_CUBE_VERTICES |-> CUBE_VERTICES[i]],
     faces |-> [i \in 1..N_CUBE_FACES |-> CUBE_FACES[i]],
     rotation |-> Vec3(ZERO, ZERO, ZERO),
     scale |-> Vec3(ONE, ONE, ONE),
     translation |-> Vec3(ZERO, ZERO, ZERO)]

\* Mesh::new_cube called directly
CallNewCube ==
    /\ pc = "direct"
    /\ call.op = "none"
    /\ call' = [op |-> "new_cube", args |-> <<>>]
    /\ mesh' = new_cube
    /\ UNCHANGED <<overflow_checks, file, events, pc, is_running, camera_position,
                   triangles_to_render, color_buffer, presented, before, outcome>>

\* the "v" arm of load_from_file on the words after the tag
load_vertex(words) ==
    IF Len(words) < 3 THEN [ok |-> FALSE, val |-> Vec3(NaN, NaN, NaN)]
    ELSE LET x == parse_f32(words[1])
             y == parse_f32(words[2])
             z == parse_f32(words[3])
         IN  [ok |-> x.ok /\ y.ok /\ z.ok, val |-> Vec3(x.val, y.val, z.val)]

\* the `for word in words` loop of the "f" arm; i counts the words read
RECURSIVE load_face_words(_, _, _)
load_face_words(words, i, face) ==
    IF words = <<>> THEN [ok |-> TRUE, val |-> face]
    ELSE LET index == parse_usize(split_slash_first(Head(words)))
         IN  IF ~index.ok THEN [ok |-> FALSE, val |-> face]
             ELSE load_face_words(Tail(words), i + 1,
                                  CASE i = 0 -> [face EXCEPT !.a = index.val]
                                    [] i = 1 -> [face EXCEPT !.b = index.val]
                                    [] i = 2 -> [face EXCEPT !.c = index.val]
                                    [] OTHER -> face)

\* load_face with the word counter started at 1
load_face_counts_from_one(words) == load_face_words(words, 1, Face(0, 0, 0))

\* the "f" arm of load_from_file on the words after the tag
load_face(words) == load_face_words(words, 0, Face(0, 0, 0))

\* the loop over the lines of load_from_file
RECURSIVE load_lines(_, _, _)
load_lines(lines, vertices, faces) ==
    IF lines = <<>> THEN [ok |-> TRUE, vertices |-> vertices, faces |-> faces]
    ELSE LET line == Head(lines)
         IN  IF line = <<>> THEN load_lines(Tail(lines), vertices, faces)
             ELSE IF Head(line) = <<"v">>
                  THEN LET v == load_vertex(Tail(line))
                       IN  IF ~v.ok THEN [ok |-> FALSE, vertices |-> vertices, faces |-> faces]
                           ELSE load_lines(Tail(lines), Append(vertices, v.val), faces)
             ELSE IF Head(line) = <<"f">>
                  THEN LET f == load_face(Tail(line))
                       IN  IF ~f.ok THEN [ok |-> FALSE, vertices |-> vertices, faces |-> faces]
                           ELSE load_lines(Tail(lines), vertices, Append(faces, f.val))
             ELSE load_lines(Tail(lines), vertices, faces)

\* Mesh::load_from_file on the lines of the file: the mesh, or a panic
load_from_file(lines) ==
    LET r == load_lines(lines, <<>>, <<>>)
    IN  [ok |-> r.ok,
         mesh |-> IF ~r.ok THEN NoMesh
                  ELSE [vertices |-> r.vertices, faces |-> r.faces,
                        rotation |-> Vec3(ZERO, ZERO, ZERO),
                        scale |-> Vec3(ONE, ONE, ONE),
                        translation |-> Vec3(ZERO, ZERO, ZERO)]]

\* the mesh files tried
V == <<"v">>
F == <<"f">>
T1 == <<"1">>
T2 == <<"2">>
T3 == <<"3">>
TX == <<"x">>
LineV1 == <<V, <<"1", ".", "0">>, <<"2", ".", "0">>, <<"3", ".", "0">>>>
LineV2 == <<V, <<"-", "1", ".", "5">>, <<"0">>, <<"+", "2", ".">>>>
LineF111 == <<F, T1, T1, T1>>
Files ==
    {<<>>,
     <<LineV1, LineF111>>,
     <<LineV1, <<>>, <<<<"#">>, T1>>, LineV2, <<<<"v", "n">>, T1, TX>>, <<F, T2, T1, T2>>, LineF111>>,
     <<LineV2, LineV1, <<F, <<"1", "/", "x", "/", "3">>, <<"2", "/">>, <<"+", "1", "/", "/", "2">>>>>>,
     <<LineV1, <<F, T1, T1>>>>,
     <<LineV1, <<F>>, LineF111>>,
     <<LineV1, <<V, T1, T2>>, LineF111>>,
     <<<<V, T1, TX, T3>>>>,
     <<LineV1, <<V, T1, <<".">>, T3>>>>,
     <<LineV1, <<F, T1, TX, T1>>>>,
     <<LineV1, <<F, T1, <<"/", "1">>, T1>>>>,
     <<LineV1, <<F, T1, <<"-", "1">>, T1>>>>,
     <<LineV1, <<F, T1, T1, T1, TX>>>>,
     <<LineV1, <<F, T1, T1, T1, T3>>, <<V, T1, T2, T3, TX>>>>,
     <<LineV1, LineV2, <<F, T1, T2, T3>>>>,
     <<LineF111, LineV1>>,
     <<LineV1, <<F, <<"0">>, T1, T1>>>>,
     \* an index of usize::MAX, and one of usize::MAX + 1
     <<LineV1, <<F, <<"+", "1", "8", "4", "4", "6", "7", "4", "4", "0", "7", "3", "7", "0", "9", "5", "5", "1", "6", "1", "5">>,
                 T1, T1>>>>,
     <<LineV1, <<F, T1,
                 <<"1", "8", "4", "4", "6", "7", "4", "4", "0", "7", "3", "7", "0", "9", "5", "5", "1", "6", "1", "6">>, T1>>>>}

-----------------------------------------------------------------------------
(* main.rs: the renderer and its frame loop *)

Event(type, keycode, y) == [type |-> type, keycode |-> keycode, y |-> y]
\* the events SDL may deliver
Events ==
    {Event("Quit", "", 0), Event("KeyDown", "Escape", 0), Event("KeyUp", "Escape", 0),
     Event("KeyDown", "A", 0), Event("MouseWheel", "", -1)}

\* f32::sin and f32::cos at the angles the rotation takes in the frames
\* followed (sums of the rotation step from 0.0): the values of sinf and cosf,
\* which at these angles are the f32 nearest to the sine and the cosine
SinCosTable ==
    <<[angle |-> Float(FALSE, 0, -149),
       sin |-> Float(FALSE, 0, -149), cos |-> Float(FALSE, 8388608, -23)],
      [angle |-> Float(FALSE, 10737418, -29),
       sin |-> Float(FALSE, 10736702, -29), cos |-> Float(FALSE, 16773861, -24)],
      [angle |-> Float(FALSE, 10737418, -28),
       sin |-> Float(FALSE, 10734555, -28), cos |-> Float(FALSE, 16763796, -24)],
      [angle |-> Float(FALSE, 16106127, -28),
       sin |-> Float(FALSE, 16096465, -28), cos |-> Float(FALSE, 16747026, -24)],
      [angle |-> Float(FALSE, 10737418, -27),
       sin |-> Float(FALSE, 10725968, -27), cos |-> Float(FALSE, 16723558, -24)],
      [angle |-> Float(FALSE, 13421772, -27),
       sin |-> Float(FALSE, 13399414, -27), cos |-> Float(FALSE, 16693400, -24)],
      [angle |-> Float(FALSE, 16106126, -27),
       sin |-> Float(FALSE, 16067499, -27), cos |-> Float(FALSE, 16656565, -24)],
      [angle |-> Float(FALSE, 16106127, -27),
       sin |-> Float(FALSE, 16067500, -27), cos |-> Float(FALSE, 16656565, -24)],
      [angle |-> Float(FALSE, 9395240, -26),
       sin |-> Float(FALSE, 9364579, -26), cos |-> Float(FALSE, 16613068, -24)],
      [angle |-> Float(FALSE, 10737417, -26),
       sin |-> Float(FALSE, 10691663, -26), cos |-> Float(FALSE, 16562925, -24)],
      [angle |-> Float(FALSE, 10737418, -26),
       sin |-> Float(FALSE, 10691664, -26), cos |-> Float(FALSE, 16562925, -24)]>>
SinCos(angle) ==
    SinCosTable[CHOOSE i \in 1..Len(SinCosTable) : SinCosTable[i].angle = angle]
\* angle.sin() and angle.cos()
sin(angle) == SinCos(angle).sin
cos(angle) == SinCos(angle).cos

\* Vec3::rotate_x(angle)
rotate_x(v, angle) ==
    Vec3(v.x,
         F32Sub(F32Mul(v.y, cos(angle)), F32Mul(v.z, sin(angle))),
         F32Add(F32Mul(v.y, sin(angle)), F32Mul(v.z, cos(angle))))

\* Vec3::rotate_y(angle)
rotate_y(v, angle) ==
    Vec3(F32Add(F32Mul(v.x, cos(angle)), F32Mul(v.z, sin(angle))),
         v.y,
         F32Add(F32Mul(F32Neg(v.x), sin(angle)), F32Mul(v.z, cos(angle))))

\* Vec3::rotate_z(angle)
rotate_z(v, angle) ==
    Vec3(F32Sub(F32Mul(v.x, cos(angle)), F32Mul(v.y, sin(angle))),
         F32Add(F32Mul(v.x, sin(angle)), F32Mul(v.y, cos(angle))),
         v.z)

\* the field fov_factor, set by Renderer::new and never assigned again
fov_factor == Fin(700, 0)

\* Renderer::project(point)
project(point) ==
    [x |-> F32Div(F32Mul(fov_factor, point.x), point.z),
     y |-> F32Div(F32Mul(fov_factor, point.y), point.z)]

\* `projected_point.x += WINDOW_WIDTH as f32 / 2.0` and the same for y
centered(point) ==
    [x |-> F32Add(point.x, F32Div(I32AsF32(WINDOW_WIDTH), Fin(2, 0))),
     y |-> F32Add(point.y, F32Div(I32AsF32(WINDOW_HEIGHT), Fin(2, 0)))]

\* `transformed_vertex.z -= self.camera_position.z`
translated(v, camera) == [v EXCEPT !.z = F32Sub(@, camera.z)]

\* the body of `for j in 0..3` of update: the screen point of one vertex of a
\* face, under the rotation and the camera of the frame
projected_point(vertex, rotation, camera) ==
    centered(project(translated(
        rotate_z(rotate_y(rotate_x(vertex, rotation.x), rotation.y), rotation.z),
        camera)))

\* the rotation step of update, doubled
ROTATION_STEP_DOUBLED == Fin(4, 2)

\* the literal 0.02 that update adds to each axis of mesh.rotation
ROTATION_STEP == Fin(2, 2)
\* 0.0 with the rotation step added k times
RECURSIVE StepSum(_)
StepSum(k) == IF k = 0 THEN ZERO ELSE F32Add(StepSum(k - 1), ROTATION_STEP)
\* the frames whose update has begun: the steps added to rotation.x
FramesRun == CHOOSE k \in 0..(MaxFrames + 1) : mesh.rotation.x = StepSum(k)

InitRenderer ==
    /\ overflow_checks \in BOOLEAN
    /\ file \in Files
    /\ events = <<>>
    /\ pc = "new"
    /\ is_running = FALSE
    /\ camera_position = Vec3(ZERO, ZERO, ZERO)
    /\ triangles_to_render = <<>>
    /\ mesh = NoMesh
    /\ color_buffer = ZeroBuffer(0)
    /\ presented = ZeroBuffer(0)
    /\ call = NoCall
    /\ before = ZeroBuffer(0)
    /\ outcome = "ok"

\* Renderer::new, called by main
RendererNew ==
    /\ pc = "new"
    /\ LET loaded == load_from_file(file)
       IN  IF ~loaded.ok
           THEN /\ pc' = "new_panicked"
                /\ UNCHANGED <<color_buffer, is_running, camera_position, mesh>>
           ELSE /\ pc' = "loop_top"
                /\ color_buffer' = ZeroBuffer(WINDOW_WIDTH * WINDOW_HEIGHT * 3)
                /\ mesh' = loaded.mesh
                /\ is_running' = TRUE
                /\ camera_position' = Vec3(Fin(0, 0), Fin(5, 0), Fin(-5, 0))
    /\ UNCHANGED <<overflow_checks, file, events, triangles_to_render, presented,
                   call, before, outcome>>

\* the environment: an event is in SDL's queue when process_input polls it
EventArrives ==
    /\ pc = "process_input"
    /\ Len(events) < MaxEvents
    /\ \E e \in Events : events' = Append(events, e)
    /\ UNCHANGED <<overflow_checks, file, pc, is_running, camera_position,
                   triangles_to_render, mesh, color_buffer, presented, call, before, outcome>>

\* `while renderer.is_running` of main
LoopTest ==
    /\ pc = "loop_top"
    /\ IF is_running THEN FramesRun < MaxFrames /\ pc' = "process_input" ELSE pc' = "done"
    /\ UNCHANGED <<overflow_checks, file, events, is_running, camera_position,
                   triangles_to_render, mesh, color_buffer, presented, call, before, outcome>>

\* handle_event that takes every event of the Escape key for a key-down
handle_event_any_escape(state, event) ==
    CASE event.type = "Quit" -> [state EXCEPT !.is_running = FALSE]
      [] event.type = "MouseWheel" ->
            [state EXCEPT !.camera_position.z = F32Add(@, I32AsF32(event.y))]
      [] event.keycode = "Escape" -> [state EXCEPT !.is_running = FALSE]
      [] OTHER -> state

\* the match of process_input on one event
handle_event(state, event) ==
    CASE event.type = "Quit" -> [state EXCEPT !.is_running = FALSE]
      [] event.type = "MouseWheel" ->
            [state EXCEPT !.camera_position.z = F32Add(@, I32AsF32(event.y))]
      [] event.type = "KeyDown" /\ event.keycode = "Escape" -> [state EXCEPT !.is_running = FALSE]
      [] OTHER -> state

\* the loop of process_input over the events polled
RECURSIVE handle_events(_, _)
handle_events(state, evs) ==
    IF evs = <<>> THEN state ELSE handle_events(handle_event(state, Head(evs)), Tail(evs))

\* Renderer::process_input
ProcessInput ==
    /\ pc = "process_input"
    /\ LET s == handle_events([is_running |-> is_running, camera_position |-> camera_position],
                              events)
       IN  /\ is_running' = s.is_running
           /\ camera_position' = s.camera_position
    /\ events' = <<>>
    /\ pc' = "update"
    /\ UNCHANGED <<overflow_checks, file, triangles_to_render, mesh, color_buffer,
                   presented, call, before, outcome>>

Triangle(points) == [points |-> points]
\* IndexOk for indices that count from 0
IndexOk_zero_based(m, k) == UsizeFits(k) /\ 0 <= UsizeNat(k) /\ UsizeNat(k) < Len(m.vertices)
\* vertices[k - 1] is an element of the vector
IndexOk(m, k) == UsizeFits(k) /\ 1 <= UsizeNat(k) /\ UsizeNat(k) <= Len(m.vertices)

\* the triangle update pushes for a face whose indices are in range
face_triangle(m, camera, cube_face) ==
    Triangle(<<projected_point(m.vertices[UsizeNat(cube_face.a)], m.rotation, camera),
               projected_point(m.vertices[UsizeNat(cube_face.b)], m.rotation, camera),
               projected_point(m.vertices[UsizeNat(cube_face.c)], m.rotation, camera)>>)

\* update_faces that stops one face early
RECURSIVE update_faces_stops_early(_, _, _, _)
update_faces_stops_early(m, camera, i, triangles) ==
    IF i >= Len(m.faces) THEN [ok |-> TRUE, triangles |-> triangles]
    ELSE LET cube_face == m.faces[i]
         IN  IF ~(IndexOk(m, cube_face.a) /\ IndexOk(m, cube_face.b) /\ IndexOk(m, cube_face.c))
             THEN [ok |-> FALSE, triangles |-> triangles]
             ELSE update_faces_stops_early(m, camera, i + 1,
                               Append(triangles, face_triangle(m, camera, cube_face)))

\* the loop over the faces of update, from face i on, on the mesh m whose
\* rotation has been stepped
RECURSIVE update_faces(_, _, _, _)
update_faces(m, camera, i, triangles) ==
    IF i > Len(m.faces) THEN [ok |-> TRUE, triangles |-> triangles]
    ELSE LET cube_face == m.faces[i]
         IN  IF ~(IndexOk(m, cube_face.a) /\ IndexOk(m, cube_face.b) /\ IndexOk(m, cube_face.c))
             THEN [ok |-> FALSE, triangles |-> triangles]
             ELSE update_faces(m, camera, i + 1,
                               Append(triangles, face_triangle(m, camera, cube_face)))

\* the mesh with 0.02 added to each axis of its rotation
stepped(m) ==
    [m EXCEPT !.rotation = Vec3(F32Add(m.rotation.x, ROTATION_STEP),
                                F32Add(m.rotation.y, ROTATION_STEP),
                                F32Add(m.rotation.z, ROTATION_STEP))]

\* Renderer::update
Update ==
    /\ pc = "update"
    /\ \E m \in {stepped(mesh)} :
          /\ mesh' = m
          /\ \E r \in {update_faces(m, camera_position, 1, triangles_to_render)} :
                /\ triangles_to_render' = r.triangles
                /\ pc' = IF r.ok THEN "render" ELSE "update_panicked"
    /\ UNCHANGED <<overflow_checks, file, events, is_running, camera_position,
                   color_buffer, presented, call, before, outcome>>

\* the loop over the triangles of render
RECURSIVE draw_triangles(_, _, _)
draw_next_triangles(r, triangles, color) ==
    IF r.st # "ok" THEN r ELSE draw_triangles(r.buf, triangles, color)
draw_triangles(buf, triangles, color) ==
    IF triangles = <<>> THEN Ok(buf)
    ELSE draw_next_triangles(draw_triangle(buf, Head(triangles).points, color),
                             Tail(triangles), color)

\* Renderer::render; a frame with a line longer than MaxLineSteps is not followed
Render ==
    /\ pc = "render"
    /\ \E r \in {draw_triangles(color_buffer, triangles_to_render, Color(0, 150, 0))} :
           /\ r.st # "cut"
           /\ IF r.st = "panic"
              THEN /\ pc' = "render_panicked"
                   /\ color_buffer' = r.buf
                   /\ UNCHANGED <<triangles_to_render, presented>>
              ELSE /\ triangles_to_render' = <<>>
                   /\ presented' = r.buf
                   /\ color_buffer' = clear_color_buffer(r.buf)
                   /\ pc' = "loop_top"
    /\ UNCHANGED <<overflow_checks, file, events, is_running, camera_position, mesh,
                   call, before, outcome>>

-----------------------------------------------------------------------------
(* Properties of the loader and of the frame loop *)

IsVLine(line) == line # <<>> /\ Head(line) = V
IsFLine(line) == line # <<>> /\ Head(line) = F
IsFloat(tok) == parse_f32(tok).ok
IsIndex(tok) == parse_usize(split_slash_first(tok)).ok
\* a "v" or "f" line with one of its three fields missing or not a number
Malformed(line) ==
    \/ IsVLine(line) /\ ~(Len(line) >= 4 /\ \A i \in 2..4 : IsFloat(line[i]))
    \/ IsFLine(line) /\ ~(Len(line) >= 4 /\ \A i \in 2..4 : IsIndex(line[i]))
MalformedVertex(line) ==
    IsVLine(line) /\ ~(Len(line) >= 4 /\ \A i \in 2..4 : IsFloat(line[i]))
Loaded == pc # "new"

\* C5: loading a file with a "v" or "f" line that has a missing or non-numeric
\* field fails and gives no mesh, for "f" lines as for "v" lines.
LoadFailsOnMalformedLine ==
    (Loaded /\ \E i \in 1..Len(file) : Malformed(file[i]))
        => (pc = "new_panicked" /\ mesh = NoMesh)

\* the part of C5 about "v" lines
LoadFailsOnMalformedVertex ==
    (Loaded /\ \E i \in 1..Len(file) : MalformedVertex(file[i]))
        => (pc = "new_panicked" /\ mesh = NoMesh)

\* every "v" and "f" line has exactly three fields, each a number
WellFormed(f) ==
    \A i \in 1..Len(f) :
        /\ IsVLine(f[i]) => (Len(f[i]) = 4 /\ \A k \in 2..4 : IsFloat(f[i][k]))
        /\ IsFLine(f[i]) => (Len(f[i]) = 4 /\ \A k \in 2..4 : IsIndex(f[i][k]))
VertexOf(line) == Vec3(parse_f32(line[2]).val, parse_f32(line[3]).val, parse_f32(line[4]).val)
IndexOf(tok) == parse_usize(split_slash_first(tok)).val
FaceOf(line) == [a |-> IndexOf(line[2]), b |-> IndexOf(line[3]), c |-> IndexOf(line[4])]

\* C6: a well-formed file loads; the vertices are its "v" lines in file order,
\* the faces its "f" lines in file order, each index the part of its token
\* before the first '/', and no other line adds anything.  The lines
\* `v 1.0 2.0 3.0`, `f 1 1 1` give one vertex and the one face {1,1,1}.
LoadKeepsFileOrder ==
    (Loaded /\ WellFormed(file)) =>
        LET vs == SelectSeq(file, IsVLine)
            fs == SelectSeq(file, IsFLine)
        IN  /\ pc # "new_panicked"
            /\ mesh.vertices = [k \in 1..Len(vs) |-> VertexOf(vs[k])]
            /\ mesh.faces = [k \in 1..Len(fs) |-> FaceOf(fs[k])]
            /\ file = <<LineV1, LineF111>> =>
                 /\ mesh.vertices = <<Vec3(Fin(1, 0), Fin(2, 0), Fin(3, 0))>>
                 /\ mesh.faces = <<Face(1, 1, 1)>>

\* a loaded file with blank and other lines between two vertices and two faces
LoadKeepsFileOrderWitness ==
    /\ pc = "loop_top"
    /\ Len(file) = 7
    /\ WellFormed(file)
    /\ Len(mesh.vertices) = 2
    /\ mesh.faces = <<Face(2, 1, 2), Face(1, 1, 1)>>

\* C3: the phases of an iteration run in the order process_input, update,
\* render, each once; the running flag is read only at the top of the loop, so
\* an iteration whose input set it to false still runs its update and its
\* render, and then no other iteration starts.
FramePhasesInOrder ==
    [][/\ pc = "loop_top" => pc' = (IF is_running THEN "process_input" ELSE "done")
       /\ pc = "process_input" => (pc' = "update" \/ (pc' = pc /\ events' # events))
       /\ pc = "update" => pc' = "render"
       /\ pc = "render" => pc' = "loop_top"
       /\ pc # "done"]_vars

\* the order of the phases in the iterations that do not panic
FramePhasesInOrderUnlessPanic ==
    [][/\ pc = "loop_top" => pc' = (IF is_running THEN "process_input" ELSE "done")
       /\ pc = "process_input" => (pc' = "update" \/ (pc' = pc /\ events' # events))
       /\ pc = "update" => pc' \in {"render", "update_panicked"}
       /\ pc = "render" => pc' \in {"loop_top", "render_panicked"}
       /\ pc \notin {"done", "new_panicked", "update_panicked", "render_panicked"}]_vars

\* C7: when render starts to draw a frame's triangles every byte of the buffer
\* is zero, and the buffer presented holds the pixels of this frame's
\* triangles and nothing else.
ClearBeforeDraw ==
    [][/\ pc = "render" => color_buffer = ZeroBuffer(BUFFER_LEN)
       /\ (pc = "render" /\ pc' = "loop_top") =>
             presented' = draw_triangles(ZeroBuffer(BUFFER_LEN), triangles_to_render,
                                         GREEN).buf]_vars

\* after the second frame the buffer presented holds the one pixel this frame
\* drew for the vertex (1, 2, 3), and not the pixel (489, 471) of the first frame
ClearBeforeDrawWitness ==
    /\ pc = "loop_top"
    /\ FramesRun = 2
    /\ Len(mesh.faces) > 0
    /\ PixelsOf(presented) = {<<491, 467>>}
    /\ color_buffer = ZeroBuffer(BUFFER_LEN)

\* the j-th vertex index of a face
FaceIndex(face, j) == UsizeNat(CASE j = 1 -> face.a [] j = 2 -> face.b [] j = 3 -> face.c)

\* C8: the triangle list is empty when update starts, holds one triangle per
\* face, in the order of the faces, when update has ended, and is empty again
\* when render has ended, in every frame.
TriangleListPerFrame ==
    /\ pc \in {"loop_top", "process_input", "update", "done"} => triangles_to_render = <<>>
    /\ pc = "render" =>
         /\ Len(triangles_to_render) = Len(mesh.faces)
         /\ \A i \in 1..Len(mesh.faces) :
               \A j \in 1..3 :
                   triangles_to_render[i].points[j] =
                       projected_point(mesh.vertices[FaceIndex(mesh.faces[i], j)],
                                       mesh.rotation, camera_position)

\* the second frame's update has ended on a mesh of two different faces
TriangleListPerFrameWitness ==
    /\ pc = "render"
    /\ FramesRun = 2
    /\ Len(mesh.faces) = 2
    /\ Len(triangles_to_render) = 2
    /\ triangles_to_render[1] # triangles_to_render[2]

\* a finite f32 of exponent -29 or more and below 4, in units of 2^-29
Scaled(f) == IF f.m = 0 THEN 0 ELSE (IF f.neg THEN -1 ELSE 1) * f.m * Pow2(f.e + 29)
\* b is a + 0.02 as f32 arithmetic gives it: of the f32 values, one nearest to
\* the sum of a and the f32 nearest to 0.02, which is 10737418 * 2^-29; the
\* distance is at most half the spacing of the f32 values at b
SteppedFrom(a, b) ==
    LET d == Scaled(b) - (Scaled(a) + 10737418)
    IN  /\ b.cls = "fin" /\ b.e >= -29
        /\ 2 * (IF d < 0 THEN -d ELSE d) <= Pow2(b.e + 29)
        /\ Scaled(b) > Scaled(a)

\* C11: after construction no step changes the mesh's vertices, faces, scale
\* or translation; update, and only update, changes its rotation, by adding
\* 0.02 to each of the three axes, also when the faces that follow make it
\* panic; nothing clamps or wraps the sum.
MeshChangesOnlyByRotation ==
    [][pc # "new" =>
         /\ mesh'.vertices = mesh.vertices
         /\ mesh'.faces = mesh.faces
         /\ mesh'.scale = mesh.scale
         /\ mesh'.translation = mesh.translation
         /\ IF pc = "update"
            THEN /\ SteppedFrom(mesh.rotation.x, mesh'.rotation.x)
                 /\ SteppedFrom(mesh.rotation.y, mesh'.rotation.y)
                 /\ SteppedFrom(mesh.rotation.z, mesh'.rotation.z)
            ELSE mesh'.rotation = mesh.rotation]_vars

\* the second update of a loaded mesh has run, after a mouse-wheel event
MeshChangesOnlyByRotationWitness ==
    /\ pc = "render"
    /\ mesh.rotation = Vec3(Fin(4, 2), Fin(4, 2), Fin(4, 2))
    /\ Len(mesh.vertices) = 2
    /\ Len(mesh.faces) > 0
    /\ camera_position.z # Fin(-5, 0)

\* the sum of the wheel deltas of a sequence of events
RECURSIVE WheelSum(_)
WheelSum(evs) ==
    IF evs = <<>> THEN 0
    ELSE (IF Head(evs).type = "MouseWheel" THEN Head(evs).y ELSE 0) + WheelSum(Tail(evs))

\* a quit event or a key-down of Escape
Quits(e) == e.type = "Quit" \/ (e.type = "KeyDown" /\ e.keycode = "Escape")

\* C12: process_input clears the running flag exactly when one of the events
\* it polls is a quit or an Escape key-down, adds the wheel deltas to the
\* camera's z and leaves its x and y, and changes neither the mesh, the pixel
\* buffer nor the triangle list; once false, the running flag stays false.
ProcessInputEffects ==
    [][/\ (pc = "process_input" /\ pc' = "update") =>
            /\ is_running' = (is_running /\ \A i \in 1..Len(events) : ~Quits(events[i]))
            /\ F32AsI32(camera_position'.z) = F32AsI32(camera_position.z) + WheelSum(events)
            /\ I32AsF32(F32AsI32(camera_position'.z)) = camera_position'.z
            /\ camera_position'.x = camera_position.x
            /\ camera_position'.y = camera_position.y
            /\ mesh' = mesh
            /\ color_buffer' = color_buffer
            /\ triangles_to_render' = triangles_to_render
       /\ (pc # "new" /\ ~is_running) => ~is_running']_vars

\* process_input has consumed a wheel event and an event that quits
ProcessInputEffectsWitness ==
    /\ pc = "update"
    /\ ~is_running
    /\ camera_position = Vec3(Fin(0, 0), Fin(5, 0), Fin(-6, 0))

\* C13: after clear_color_buffer the buffer has WINDOW_WIDTH * WINDOW_HEIGHT * 3
\* bytes, all of them zero, whatever it held and however long it was; and the
\* renderer's buffer has that length in every state once Renderer::new has
\* returned.
ClearGivesZeroBuffer ==
    /\ call.op = "clear_color_buffer" =>
          /\ color_buffer.len = WINDOW_WIDTH * WINDOW_HEIGHT * 3
          /\ \A o \in DOMAIN color_buffer.bytes : color_buffer.bytes[o] = 0
    /\ pc \notin {"direct", "new", "new_panicked"} =>
          color_buffer.len = WINDOW_WIDTH * WINDOW_HEIGHT * 3

\* clear_color_buffer was called on the short slice that holds colored pixels
ClearGivesZeroBufferWitness ==
    /\ call.op = "clear_color_buffer"
    /\ before = ShortBuffer
    /\ before.len # color_buffer.len

Larger(a, b) == IF a < b THEN b ELSE a

\* pts starts at (x0, y0), ends at (x1, y1), has max(|x1 - x0|, |y1 - y0|) + 1
\* points, and each point after the first is one step in x and/or y from the
\* one before it and no farther from (x1, y1) in either coordinate
WalksToEndpoint(pts, x0, y0, x1, y1) ==
    /\ pts # <<>>
    /\ pts[1] = <<x0, y0>>
    /\ pts[Len(pts)] = <<x1, y1>>
    /\ Len(pts) = Larger(Abs(x1 - x0), Abs(y1 - y0)) + 1
    /\ \A i \in 1..(Len(pts) - 1) :
          /\ Abs(pts[i + 1][1] - pts[i][1]) <= 1
          /\ Abs(pts[i + 1][2] - pts[i][2]) <= 1
          /\ pts[i + 1] # pts[i]
          /\ Abs(x1 - pts[i + 1][1]) <= Abs(x1 - pts[i][1])
          /\ Abs(y1 - pts[i + 1][2]) <= Abs(y1 - pts[i][2])
    /\ (x0 = x1 /\ y0 = y1) => Len(pts) = 1

\* C16: for every pair of endpoints draw_line returns, having visited
\* (x0, y0) first and (x1, y1) last, max(|x1 - x0|, |y1 - y0|) + 1 points in
\* all, each one step nearer the endpoint than the one before.
DrawLineWalksToEndpoint ==
    call.op = "draw_line" =>
        LET r == line_run(before, call.args[1], call.args[2], call.args[3], call.args[4],
                          call.args[5])
        IN  /\ r.st = "ok"
            /\ outcome = "ok"
            /\ WalksToEndpoint(r.pts, call.args[1], call.args[2], call.args[3], call.args[4])

\* C16 for the endpoints within 2^28 of the origin, where neither the
\* differences nor 2 * err leave the i32 range
DrawLineWalksToEndpointWithoutOverflow ==
    (/\ call.op = "draw_line"
     /\ \A k \in 1..4 : -(HALF * 4096) < call.args[k] /\ call.args[k] < HALF * 4096) =>
        LET r == line_run(before, call.args[1], call.args[2], call.args[3], call.args[4],
                          call.args[5])
        IN  /\ r.st = "ok"
            /\ outcome = "ok"
            /\ WalksToEndpoint(r.pts, call.args[1], call.args[2], call.args[3], call.args[4])

\* the vertices of m that lie on the side of the cube where `axis` is `sign`
SideVertices(m, axis, sign) ==
    {i \in 1..Len(m.vertices) : m.vertices[i][axis] = Fin(sign, 0)}

\* the faces of m whose three vertices lie on that side
SideFaces(m, axis, sign) ==
    {k \in 1..Len(m.faces) :
        {m.faces[k].a, m.faces[k].b, m.faces[k].c}
            \subseteq {Usize(i) : i \in SideVertices(m, axis, sign)}}

\* a mesh as its constructor leaves it
FreshPlacement(m) ==
    /\ m.rotation = Vec3(Fin(0, 0), Fin(0, 0), Fin(0, 0))
    /\ m.scale = Vec3(Fin(1, 0), Fin(1, 0), Fin(1, 0))
    /\ m.translation = Vec3(Fin(0, 0), Fin(0, 0), Fin(0, 0))

\* C14: new_cube gives 8 vertices and 12 faces with every index in 1..8, each
\* of the six sides is covered by exactly two faces whose vertices all lie on
\* it, and the cube has zero rotation, unit scale and zero translation; so
\* has the mesh load_from_file returns.
CubeMeshShape ==
    /\ call.op = "new_cube" =>
          /\ Len(mesh.vertices) = 8
          /\ Len(mesh.faces) = 12
          /\ \A k \in 1..Len(mesh.faces) :
                {mesh.faces[k].a, mesh.faces[k].b, mesh.faces[k].c}
                    \subseteq {Usize(i) : i \in 1..8}
          /\ \A axis \in {"x", "y", "z"}, sign \in {-1, 1} :
                /\ Cardinality(SideVertices(mesh, axis, sign)) = 4
                /\ Cardinality(SideFaces(mesh, axis, sign)) = 2
          /\ \A k \in 1..Len(mesh.faces) :
                \E axis \in {"x", "y", "z"}, sign \in {-1, 1} : k \in SideFaces(mesh, axis, sign)
          /\ FreshPlacement(mesh)
    /\ (pc = "loop_top" /\ presented.len = 0) => FreshPlacement(mesh)

\* new_cube has been called
CubeMeshShapeWitness ==
    /\ call.op = "new_cube"
    /\ mesh.faces[12] = Face(8, 4, 6)
    /\ mesh.vertices[5] = Vec3(Fin(1, 0), Fin(1, 0), Fin(1, 0))

\* face k of m names a vertex that m does not have
StrayFace(m, k) ==
    \E index \in {m.faces[k].a, m.faces[k].b, m.faces[k].c} :
        ~UsizeFits(index) \/ UsizeNat(index) < 1 \/ UsizeNat(index) > Len(m.vertices)

\* an "f" line of f holds an index that is 0 or exceeds the number of "v" lines
FileHasStrayIndex(f) ==
    \E i \in 1..Len(f) :
        /\ IsFLine(f[i])
        /\ \E k \in 2..Len(f[i]) :
              /\ IsIndex(f[i][k])
              /\ \/ IndexOf(f[i][k]) = Usize(0)
                 \/ ~UsizeFits(IndexOf(f[i][k]))
                 \/ UsizeNat(IndexOf(f[i][k])) > Cardinality({j \in 1..Len(f) : IsVLine(f[j])})

\* C15: a file whose lines parse loads even when a face index is 0 or exceeds
\* the number of vertices, and the mesh keeps that face; update panics exactly
\* when the mesh has such a face, which ends the frame loop; with every index
\* in 1..len(vertices) update completes.
FaceIndicesUnvalidated ==
    [][/\ (pc = "new" /\ WellFormed(file) /\ FileHasStrayIndex(file)) =>
            /\ pc' = "loop_top"
            /\ \E k \in 1..Len(mesh'.faces) : StrayFace(mesh', k)
       /\ pc = "update" =>
            /\ pc' \in {"render", "update_panicked"}
            /\ pc' = "update_panicked" <=> \E k \in 1..Len(mesh.faces) : StrayFace(mesh, k)
       /\ pc # "update_panicked"]_vars

\* the first update of a mesh loaded with the face index 0 has panicked
FaceIndicesUnvalidatedWitness ==
    /\ pc = "update_panicked"
    /\ WellFormed(file)
    /\ mesh.faces[1].a = Usize(0)
    /\ Len(mesh.vertices) = 1

Init == InitRenderer

Next ==
    \/ RendererNew
    \/ EventArrives
    \/ LoopTest
    \/ ProcessInput
    \/ Update
    \/ Render

Spec == Init /\ [][Next]_vars

\* the renderer, and the direct calls of the two functions that take no
\* coordinates: clear_color_buffer on a buffer of any length, and Mesh::new_cube
SpecWithCalls == (InitDraw \/ InitRenderer) /\ [][CallClear \/ CallNewCube \/ Next]_vars
====
